---- MODULE Spec2Model ----
(***************************************************************************)
(* Papyrus header generator: the signature extraction parser               *)
(* (src/src/parser.py) and the stub emitter (src/src/header_generator.py). *)
(*                                                                         *)
(* A text is a sequence of tokens.  Every token is the literal piece of    *)
(* text it stands for: the one-character strings " ", "\n", ";", "/",      *)
(* "\\", "(", ")", ",", "=" are themselves, and every other token is a     *)
(* run of word characters (\w+) such as "Scriptname", "Foo" or "native".   *)
(* The Python string a text models is the concatenation of its tokens.     *)
(***************************************************************************)
EXTENDS Integers, Sequences, FiniteSets, TLC

VARIABLES pc, content, clean, script, functions, events, properties, header,
          params_str, parameters,
          file_bytes,
          psc_files, source_matches, idx, processed_count, missing_sources,
          line_no, block_comment, kept_lines, func_declaration, spans, examined

\* file_bytes is the content of the source file on disk.
\* The batch of main: the two file lists, the position in them, the counters.
batch == <<psc_files, source_matches, idx, processed_count, missing_sources>>

\* The line loops of the parser: the line index, the block-comment flag, the
\* lines kept, the declaration being reassembled; the lines taken by each
\* candidate and the lines examined as a declaration start.
loops == <<line_no, block_comment, kept_lines, func_declaration, spans, examined>>

vars == <<pc, content, clean, script, functions, events, properties, header,
          params_str, parameters, file_bytes, batch, loops>>

\* Python's None where a string is optional (no token is spelled None).
None == <<"None">>

----------------------------------------------------------------------------
\* Character classes and string helpers.

\* \s of the regular expressions and the whitespace of str.strip().
IsSpace(c) == c \in {" ", "\n"}

\* \w: every token that is not whitespace or punctuation is a run of word characters.
IsWord(c) == c \notin {" ", "\n", ";", "/", "\\", "(", ")", ",", "="}

\* The lower-case spelling of the letters A to Z, the only cased characters
\* of the texts modelled.
LowerCase ==
    [ch \in {"A", "B", "C", "D", "E", "F", "G", "H", "I", "J", "K", "L", "M",
              "N", "O", "P", "Q", "R", "S", "T", "U", "V", "W", "X", "Y", "Z"} |->
        CASE ch = "A" -> "a"
          [] ch = "B" -> "b"
          [] ch = "C" -> "c"
          [] ch = "D" -> "d"
          [] ch = "E" -> "e"
          [] ch = "F" -> "f"
          [] ch = "G" -> "g"
          [] ch = "H" -> "h"
          [] ch = "I" -> "i"
          [] ch = "J" -> "j"
          [] ch = "K" -> "k"
          [] ch = "L" -> "l"
          [] ch = "M" -> "m"
          [] ch = "N" -> "n"
          [] ch = "O" -> "o"
          [] ch = "P" -> "p"
          [] ch = "Q" -> "q"
          [] ch = "R" -> "r"
          [] ch = "S" -> "s"
          [] ch = "T" -> "t"
          [] ch = "U" -> "u"
          [] ch = "V" -> "v"
          [] ch = "W" -> "w"
          [] ch = "X" -> "x"
          [] ch = "Y" -> "y"
          [] ch = "Z" -> "z"]

\* str.lower() of one character.
LowerChar(ch) == IF ch \in DOMAIN LowerCase THEN LowerCase[ch] ELSE ch

\* str.lower() of a string (re.IGNORECASE compares lower-cased text): every
\* character of it lower-cased.
RECURSIVE Lower(_)
Lower(c) == IF c = "" THEN "" ELSE LowerChar(Head(c)) \o Lower(Tail(c))

\* The Python string of a token sequence: its tokens one after another.
RECURSIVE Flat(_)
Flat(s) ==
    IF s = <<>> THEN "" ELSE IF Len(s) = 1 THEN s[1] ELSE Head(s) \o Flat(Tail(s))

\* sub in str, for two strings.
Contains(str, sub) ==
    \E i \in 1..(Len(str) - Len(sub) + 1) : SubSeq(str, i, i + Len(sub) - 1) = sub

\* str.lower() == kw for a lower-case kw: the length is compared first.
LowerEquals(str, kw) == Len(str) = Len(kw) /\ Lower(str) = kw

\* kw in str.lower() for a lower-case kw: the length is compared first.
LowerContains(str, kw) == Len(str) >= Len(kw) /\ Contains(Lower(str), kw)

\* s[i:] and s[:i] with 1-based positions.
From(s, i) == SubSeq(s, i, Len(s))
Upto(s, i) == SubSeq(s, 1, i)

\* str.index(c) + 1, or 0 when c does not occur.
IndexOf(s, c) ==
    IF \E i \in 1..Len(s) : s[i] = c
    THEN CHOOSE i \in 1..Len(s) : s[i] = c /\ \A j \in 1..(i - 1) : s[j] # c
    ELSE 0

\* `ab in s` for a two-character marker.
Contains2(s, a, b) == \E i \in 1..(Len(s) - 1) : s[i] = a /\ s[i + 1] = b

\* First position >= i that holds no whitespace (Len(s) + 1 when there is none).
RECURSIVE SkipSpace(_, _)
SkipSpace(s, i) == IF i <= Len(s) /\ IsSpace(s[i]) THEN SkipSpace(s, i + 1) ELSE i

\* First position >= i that holds no word token.
RECURSIVE SkipWord(_, _)
SkipWord(s, i) == IF i <= Len(s) /\ IsWord(s[i]) THEN SkipWord(s, i + 1) ELSE i

\* str.rstrip(), str.lstrip(), str.strip().
RECURSIVE RStrip(_)
RStrip(s) == IF s # <<>> /\ IsSpace(s[Len(s)]) THEN RStrip(Upto(s, Len(s) - 1)) ELSE s

LStrip(s) == From(s, SkipSpace(s, 1))

Strip(s) == RStrip(LStrip(s))

\* str.split('\n').
RECURSIVE SplitLines(_)
SplitLines(s) ==
    LET i == IndexOf(s, "\n")
    IN  IF i = 0 THEN <<s>> ELSE <<Upto(s, i - 1)>> \o SplitLines(From(s, i + 1))

\* '\n'.join(lines).
RECURSIVE JoinLines(_)
JoinLines(ls) ==
    IF ls = <<>> THEN <<>>
    ELSE IF Len(ls) = 1 THEN ls[1]
    ELSE ls[1] \o <<"\n">> \o JoinLines(Tail(ls))

----------------------------------------------------------------------------
\* PapyrusParser._preprocess_content

\* The first loop without the `continue` of the closing line: the line that
\* closes a block comment falls through to the line-comment handling.
RECURSIVE RemoveCommentsKeepClosing(_, _)
RemoveCommentsKeepClosing(ls, in_block_comment) ==
    IF ls = <<>> THEN <<>>
    ELSE LET line == Head(ls)
             opened == (Contains2(line, ";", "/") \/ in_block_comment)
                       /\ ~Contains2(line, "/", ";")
             cut == IF IndexOf(line, ";") # 0 THEN Upto(line, IndexOf(line, ";") - 1) ELSE line
         IN  IF opened THEN RemoveCommentsKeepClosing(Tail(ls), TRUE)
             ELSE (IF Strip(cut) # <<>> THEN <<cut>> ELSE <<>>)
                  \o RemoveCommentsKeepClosing(Tail(ls), FALSE)

\* First loop: block comments, line comments, blank lines.
RECURSIVE RemoveComments(_, _)
RemoveComments(ls, in_block_comment) ==
    IF ls = <<>> THEN <<>>
    ELSE LET line == Head(ls)
             opened == Contains2(line, ";", "/") \/ in_block_comment
             cut == IF IndexOf(line, ";") # 0 THEN Upto(line, IndexOf(line, ";") - 1) ELSE line
         IN  IF Contains2(line, "/", ";") THEN RemoveComments(Tail(ls), FALSE)
             ELSE IF opened THEN RemoveComments(Tail(ls), TRUE)
             ELSE (IF Strip(cut) # <<>> THEN <<cut>> ELSE <<>>)
                  \o RemoveComments(Tail(ls), FALSE)

\* The second loop without the separating space.
RECURSIVE JoinContinuationsNoSpace(_, _)
JoinContinuationsNoSpace(ls, buffer) ==
    IF ls = <<>> THEN (IF buffer # <<>> THEN <<buffer>> ELSE <<>>)
    ELSE LET line == Head(ls)
             r == RStrip(line)
         IN  IF r # <<>> /\ r[Len(r)] = "\\"
             THEN JoinContinuationsNoSpace(Tail(ls), buffer \o Upto(r, Len(r) - 1))
             ELSE <<buffer \o line>> \o JoinContinuationsNoSpace(Tail(ls), <<>>)

\* Second loop: backslash continuations.
RECURSIVE JoinContinuations(_, _)
JoinContinuations(ls, buffer) ==
    IF ls = <<>> THEN (IF buffer # <<>> THEN <<buffer>> ELSE <<>>)
    ELSE LET line == Head(ls)
             r == RStrip(line)
         IN  IF r # <<>> /\ r[Len(r)] = "\\"
             THEN JoinContinuations(Tail(ls), buffer \o Upto(r, Len(r) - 1) \o <<" ">>)
             ELSE <<buffer \o line>> \o JoinContinuations(Tail(ls), <<>>)

PreprocessContent(text) ==
    JoinLines(JoinContinuations(RemoveComments(SplitLines(text), FALSE), <<>>))

----------------------------------------------------------------------------
\* Regular-expression pieces shared by the patterns.

\* ^ under re.MULTILINE: the start of the text or the position after a newline.
LineStart(t, s) == s = 1 \/ (s - 1 <= Len(t) /\ t[s - 1] = "\n")

\* A literal keyword at position p (re.IGNORECASE).
Keyword(t, p, kw) == p <= Len(t) /\ LowerEquals(t[p], kw)

\* \s*$ under re.MULTILINE from position p: the position where the match ends,
\* or 0 when it fails.  \s* is greedy, so the match ends at the end of the text
\* when only whitespace is left, else before the last newline of the run.
TailEnd(t, p) ==
    LET e == SkipSpace(t, p)
        nl == {j \in p..(e - 1) : t[j] = "\n"}
    IN  IF e = Len(t) + 1 THEN e
        ELSE IF nl # {} THEN CHOOSE j \in nl : \A k \in nl : k <= j
        ELSE 0

\* A failed match.
NoMatch == [ok |-> FALSE]

----------------------------------------------------------------------------
\* PapyrusParser.script_pattern and _parse_script_declaration

\* (?:\s+(Hidden|Conditional))?\s*$ from position p, the group tried first.
ScriptFlagTail(t, p) ==
    LET r == SkipSpace(t, p)
        withFlag == p <= Len(t) /\ IsSpace(t[p])
                    /\ (Keyword(t, r, "hidden") \/ Keyword(t, r, "conditional"))
                    /\ TailEnd(t, r + 1) # 0
    IN  IF withFlag THEN [ok |-> TRUE, flag |-> <<t[r]>>]
        ELSE IF TailEnd(t, p) # 0 THEN [ok |-> TRUE, flag |-> None]
        ELSE NoMatch

\* (?:\s+extends\s+(\w+))? and what follows it, from position p, the group tried first.
ScriptExtendsTail(t, p) ==
    LET q == SkipSpace(t, p)
        x == SkipSpace(t, q + 1)
        y == SkipWord(t, x)
        grp == p <= Len(t) /\ IsSpace(t[p]) /\ Keyword(t, q, "extends")
               /\ q + 1 <= Len(t) /\ IsSpace(t[q + 1])
               /\ x <= Len(t) /\ IsWord(t[x])
        with == IF grp THEN ScriptFlagTail(t, y) ELSE NoMatch
        without == ScriptFlagTail(t, p)
    IN  IF with.ok THEN [ok |-> TRUE, extends |-> SubSeq(t, x, y - 1), flag |-> with.flag]
        ELSE IF without.ok THEN [ok |-> TRUE, extends |-> None, flag |-> without.flag]
        ELSE NoMatch

\* script_pattern tried at position s.
ScriptMatchAt(t, s) ==
    LET a == SkipSpace(t, s)
        b == SkipSpace(t, a + 1)
        c == SkipWord(t, b)
        head == LineStart(t, s) /\ Keyword(t, a, "scriptname")
                /\ a + 1 <= Len(t) /\ IsSpace(t[a + 1])
                /\ b <= Len(t) /\ IsWord(t[b])
        rest == IF head THEN ScriptExtendsTail(t, c) ELSE NoMatch
    IN  IF rest.ok
        THEN [ok |-> TRUE, script_name |-> SubSeq(t, b, c - 1),
              extends |-> rest.extends, flag |-> rest.flag]
        ELSE NoMatch

\* script_pattern.search(content): the leftmost match.
ScriptSearch(t) ==
    LET hits == {s \in 1..(Len(t) + 1) : ScriptMatchAt(t, s).ok}
    IN  IF hits = {} THEN NoMatch
        ELSE ScriptMatchAt(t, CHOOSE s \in hits : \A k \in hits : s <= k)

\* raise ValueError("Could not find Scriptname declaration")
ValueError == [ok |-> FALSE, error |-> "ValueError"]

\* _parse_script_declaration: the returned tuple, or the raised ValueError.
ParseScriptDeclaration(t) ==
    LET match == ScriptSearch(t)
    IN  IF ~match.ok THEN ValueError
        ELSE [ok |-> TRUE,
              script_name |-> match.script_name,
              extends |-> match.extends,
              flags |-> IF match.flag # None THEN <<match.flag>> ELSE <<>>]

----------------------------------------------------------------------------
\* PapyrusParser._parse_parameters

\* The character loop without the nesting depth: every comma splits.
RECURSIVE SplitLoopEveryComma(_, _, _, _)
SplitLoopEveryComma(s, i, paren_depth, current_part) ==
    IF i > Len(s)
    THEN (IF Strip(current_part) # <<>> THEN <<Strip(current_part)>> ELSE <<>>)
    ELSE IF s[i] = ","
         THEN <<Strip(current_part)>> \o SplitLoopEveryComma(s, i + 1, paren_depth, <<>>)
    ELSE SplitLoopEveryComma(s, i + 1, paren_depth, Append(current_part, s[i]))

\* The character loop with parts that are appended as they were read, the
\* surrounding whitespace kept.
RECURSIVE SplitLoopUntrimmed(_, _, _, _)
SplitLoopUntrimmed(s, i, paren_depth, current_part) ==
    IF i > Len(s)
    THEN (IF Strip(current_part) # <<>> THEN <<current_part>> ELSE <<>>)
    ELSE IF s[i] = "(" THEN SplitLoopUntrimmed(s, i + 1, paren_depth + 1, Append(current_part, s[i]))
    ELSE IF s[i] = ")" THEN SplitLoopUntrimmed(s, i + 1, paren_depth - 1, Append(current_part, s[i]))
    ELSE IF s[i] = "," /\ paren_depth = 0
         THEN <<current_part>> \o SplitLoopUntrimmed(s, i + 1, paren_depth, <<>>)
    ELSE SplitLoopUntrimmed(s, i + 1, paren_depth, Append(current_part, s[i]))

\* The character loop: the parts appended to param_parts.
RECURSIVE SplitLoop(_, _, _, _)
SplitLoop(s, i, paren_depth, current_part) ==
    IF i > Len(s)
    THEN (IF Strip(current_part) # <<>> THEN <<Strip(current_part)>> ELSE <<>>)
    ELSE IF s[i] = "(" THEN SplitLoop(s, i + 1, paren_depth + 1, Append(current_part, s[i]))
    ELSE IF s[i] = ")" THEN SplitLoop(s, i + 1, paren_depth - 1, Append(current_part, s[i]))
    ELSE IF s[i] = "," /\ paren_depth = 0
         THEN <<Strip(current_part)>> \o SplitLoop(s, i + 1, paren_depth, <<>>)
    ELSE SplitLoop(s, i + 1, paren_depth, Append(current_part, s[i]))

NonEmpty(param) == Strip(param) # <<>>

ParseParameters(s) ==
    IF Strip(s) = <<>> THEN <<>>
    ELSE SelectSeq(SplitLoop(s, 1, 0, <<>>), NonEmpty)

----------------------------------------------------------------------------
\* PapyrusParser._parse_functions and _parse_single_function

\* Function\s+\w+ at position p.
FunctionKeyword(t, p) ==
    /\ Keyword(t, p, "function")
    /\ p + 1 <= Len(t) /\ IsSpace(t[p + 1])
    /\ SkipSpace(t, p + 1) <= Len(t) /\ IsWord(t[SkipSpace(t, p + 1)])

\* re.match(r'^\s*(?:\w+\s+)?Function\s+\w+', line, re.IGNORECASE)
StartsFunction(line) ==
    LET a == SkipSpace(line, 1)
        w == SkipWord(line, a)
    IN  \/ /\ a <= Len(line) /\ IsWord(line[a])
           /\ w <= Len(line) /\ IsSpace(line[w])
           /\ FunctionKeyword(line, SkipSpace(line, w))
        \/ FunctionKeyword(line, a)

\* The inner while loop appending the next line without the separating blank.
RECURSIVE ReassembleNoBlank(_, _, _)
ReassembleNoBlank(lines, i, declaration) ==
    IF i + 1 <= Len(lines) /\ IndexOf(declaration, ")") = 0
    THEN ReassembleNoBlank(lines, i + 1, declaration \o Strip(lines[i + 1]))
    ELSE [i |-> i, declaration |-> declaration]

\* The inner while loop: lines are appended until the text holds a ")" or the
\* lines run out.  Gives the index of the last line taken and the joined text.
RECURSIVE Reassemble(_, _, _)
Reassemble(lines, i, declaration) ==
    IF i + 1 <= Len(lines) /\ IndexOf(declaration, ")") = 0
    THEN Reassemble(lines, i + 1, declaration \o <<" ">> \o Strip(lines[i + 1]))
    ELSE [i |-> i, declaration |-> declaration]

\* (?:\s+([\w\s]+))?\s*$ on the text after the closing parenthesis (no MULTILINE).
FlagsTailOk(tail) ==
    /\ \A k \in 1..Len(tail) : IsWord(tail[k]) \/ IsSpace(tail[k])
    /\ tail = <<>> \/ IsSpace(tail[1])

\* match.group(4) or "": \s+ is greedy and gives back one character only when
\* nothing else is left for [\w\s]+.
FlagsGroup(tail) ==
    LET k == SkipSpace(tail, 1) - 1
    IN  IF k < Len(tail) THEN From(tail, k + 1)
        ELSE IF k >= 2 THEN <<tail[k]>>
        ELSE <<>>

\* "native" in flags_str.lower(): a substring test, so any word that holds it counts.
HasNative(flags_str) == LowerContains(Flat(flags_str), "native")

\* The rest of the pattern from the Function keyword at position f, the
\* return type (group 1) already decided; (.*?) is lazy, so the first ")"
\* after which the tail matches closes the parameter list.
FunctionRest(d, f, return_type) ==
    LET n == SkipSpace(d, f + 1)
        n2 == SkipWord(d, n)
        o == SkipSpace(d, n2)
        closes == {c \in (o + 1)..Len(d) : d[c] = ")" /\ FlagsTailOk(From(d, c + 1))}
        c == CHOOSE c \in closes : \A k \in closes : c <= k
        params_str0 == SubSeq(d, o + 1, c - 1)
        flags_str == FlagsGroup(From(d, c + 1))
        is_native == HasNative(flags_str)
    IN  IF FunctionKeyword(d, f) /\ o <= Len(d) /\ d[o] = "(" /\ closes # {}
        THEN <<[name |-> SubSeq(d, n, n2 - 1),
                return_type |-> return_type,
                parameters |-> IF Strip(params_str0) # <<>>
                               THEN ParseParameters(params_str0) ELSE <<>>,
                is_native |-> is_native,
                is_event |-> FALSE,
                flags |-> Strip(IF is_native THEN flags_str
                                ELSE flags_str \o <<" ", "native">>)]>>
        ELSE <<>>

\* _parse_single_function: <<>> is None, <<f>> a FunctionSignature.  The
\* optional return-type group is tried first.
ParseSingleFunction(d) ==
    LET a == SkipSpace(d, 1)
        w == SkipWord(d, a)
        typed == IF a <= Len(d) /\ IsWord(d[a]) /\ w <= Len(d) /\ IsSpace(d[w])
                 THEN FunctionRest(d, SkipSpace(d, w), SubSeq(d, a, w - 1))
                 ELSE <<>>
    IN  IF typed # <<>> THEN typed ELSE FunctionRest(d, a, None)

\* The outer while loop putting each signature in front of the list.
RECURSIVE ParseFunctionsFromPrepending(_, _)
ParseFunctionsFromPrepending(lines, i) ==
    IF i > Len(lines) THEN <<>>
    ELSE IF StartsFunction(Strip(lines[i]))
         THEN LET r == Reassemble(lines, i, Strip(lines[i]))
              IN  ParseFunctionsFromPrepending(lines, r.i + 1)
                  \o ParseSingleFunction(r.declaration)
         ELSE ParseFunctionsFromPrepending(lines, i + 1)

\* The outer while loop from line i on.
RECURSIVE ParseFunctionsFrom(_, _)
ParseFunctionsFrom(lines, i) ==
    IF i > Len(lines) THEN <<>>
    ELSE IF StartsFunction(Strip(lines[i]))
         THEN LET r == Reassemble(lines, i, Strip(lines[i]))
              IN  ParseSingleFunction(r.declaration) \o ParseFunctionsFrom(lines, r.i + 1)
         ELSE ParseFunctionsFrom(lines, i + 1)

ParseFunctions(t) == ParseFunctionsFrom(SplitLines(t), 1)

----------------------------------------------------------------------------
\* PapyrusParser._parse_events and _parse_single_event

\* re.match(r'^\s*Event\s+\w+', line, re.IGNORECASE)
StartsEvent(line) ==
    LET a == SkipSpace(line, 1)
    IN  /\ Keyword(line, a, "event")
        /\ a + 1 <= Len(line) /\ IsSpace(line[a + 1])
        /\ SkipSpace(line, a + 1) <= Len(line) /\ IsWord(line[SkipSpace(line, a + 1)])

\* _parse_single_event: r'^\s*Event\s+(\w+)\s*\((.*?)\)\s*$'
ParseSingleEvent(d) ==
    LET a == SkipSpace(d, 1)
        n == SkipSpace(d, a + 1)
        n2 == SkipWord(d, n)
        o == SkipSpace(d, n2)
        closes == {c \in (o + 1)..Len(d) : d[c] = ")" /\ SkipSpace(d, c + 1) = Len(d) + 1}
        c == CHOOSE c \in closes : \A k \in closes : c <= k
        params_str0 == SubSeq(d, o + 1, c - 1)
    IN  IF StartsEvent(d) /\ o <= Len(d) /\ d[o] = "(" /\ closes # {}
        THEN <<[name |-> SubSeq(d, n, n2 - 1),
                return_type |-> None,
                parameters |-> IF Strip(params_str0) # <<>>
                               THEN ParseParameters(params_str0) ELSE <<>>,
                is_native |-> FALSE,
                is_event |-> TRUE,
                flags |-> <<>>]>>
        ELSE <<>>

RECURSIVE ParseEventsFrom(_, _)
ParseEventsFrom(lines, i) ==
    IF i > Len(lines) THEN <<>>
    ELSE IF StartsEvent(Strip(lines[i]))
         THEN LET r == Reassemble(lines, i, Strip(lines[i]))
              IN  ParseSingleEvent(r.declaration) \o ParseEventsFrom(lines, r.i + 1)
         ELSE ParseEventsFrom(lines, i + 1)

ParseEvents(t) == ParseEventsFrom(SplitLines(t), 1)

----------------------------------------------------------------------------
\* PapyrusParser.property_pattern and _parse_properties

\* (?:\s+(Auto(?:ReadOnly)?))?\s*$ from position p, the group tried first.
PropertyFlagTail(t, p) ==
    LET r == SkipSpace(t, p)
        withFlag == p <= Len(t) /\ IsSpace(t[p])
                    /\ (Keyword(t, r, "auto") \/ Keyword(t, r, "autoreadonly"))
                    /\ TailEnd(t, r + 1) # 0
    IN  IF withFlag THEN [ok |-> TRUE, flag |-> <<t[r]>>, end |-> TailEnd(t, r + 1)]
        ELSE IF TailEnd(t, p) # 0 THEN [ok |-> TRUE, flag |-> None, end |-> TailEnd(t, p)]
        ELSE NoMatch

\* [^;\r\n]* from position a: the position where the longest run stops.
RECURSIVE SkipDefault(_, _)
SkipDefault(t, a) ==
    IF a <= Len(t) /\ t[a] \notin {";", "\n"} THEN SkipDefault(t, a + 1) ELSE a

\* (?:\s*=\s*[^;\r\n]*)? from position p with what follows it.  Both \s* and
\* [^;\r\n]* are greedy: the longest whitespace after "=", then the longest
\* default text, after which the rest matches is taken.
PropertyDefaultTail(t, p) ==
    LET e == SkipSpace(t, p)
        cand == {x \in [a : (e + 1)..SkipSpace(t, e + 1), b : (e + 1)..(Len(t) + 1)] :
                    x.a <= x.b /\ x.b <= SkipDefault(t, x.a) /\ PropertyFlagTail(t, x.b).ok}
        best == CHOOSE x \in cand :
                    \A y \in cand : y.a < x.a \/ (y.a = x.a /\ y.b <= x.b)
    IN  IF e <= Len(t) /\ t[e] = "=" /\ cand # {}
        THEN PropertyFlagTail(t, best.b)
        ELSE PropertyFlagTail(t, p)

\* property_pattern tried at position s.
PropertyMatchAt(t, s) ==
    LET a == SkipSpace(t, s)
        w == SkipWord(t, a)
        k == SkipSpace(t, w)
        n == SkipSpace(t, k + 1)
        n2 == SkipWord(t, n)
        head == /\ LineStart(t, s)
                /\ a <= Len(t) /\ IsWord(t[a])
                /\ w <= Len(t) /\ IsSpace(t[w])
                /\ Keyword(t, k, "property")
                /\ k + 1 <= Len(t) /\ IsSpace(t[k + 1])
                /\ n <= Len(t) /\ IsWord(t[n])
        rest == IF head THEN PropertyDefaultTail(t, n2) ELSE NoMatch
    IN  IF rest.ok
        THEN [ok |-> TRUE, start |-> s, type_name |-> SubSeq(t, a, w - 1),
              name |-> SubSeq(t, n, n2 - 1), flag |-> rest.flag, end |-> rest.end]
        ELSE NoMatch

\* property_pattern.finditer(content): the non-overlapping matches, left to right.
RECURSIVE PropertyFindIter(_, _)
PropertyFindIter(t, pos) ==
    LET hits == {s \in pos..(Len(t) + 1) : PropertyMatchAt(t, s).ok}
        m == PropertyMatchAt(t, CHOOSE s \in hits : \A k \in hits : s <= k)
    IN  IF hits = {} THEN <<>>
        ELSE <<m>> \o PropertyFindIter(t, IF m.end > m.start THEN m.end ELSE m.end + 1)

\* The filter of _parse_properties on one match.
IsGlobalVariable(m) == LowerEquals(Flat(m.type_name), "globalvariable")

HasAutoFlag(m) == m.flag # None /\ LowerContains(Flat(m.flag), "auto")

\* The filter without its GlobalVariable alternative.
RetainedAutoOnly(m) == HasAutoFlag(m)

Retained(m) == IsGlobalVariable(m) \/ HasAutoFlag(m)

PropertySignature(m) ==
    [name |-> m.name, type_name |-> m.type_name,
     flags |-> IF m.flag # None THEN <<m.flag>> ELSE <<>>]

RECURSIVE MapSignatures(_)
MapSignatures(ms) ==
    IF ms = <<>> THEN <<>> ELSE <<PropertySignature(Head(ms))>> \o MapSignatures(Tail(ms))

ParseProperties(t) == MapSignatures(SelectSeq(PropertyFindIter(t, 1), Retained))

----------------------------------------------------------------------------
\* HeaderGenerator (src/src/header_generator.py)

\* sep.join(parts) for a list of strings.
RECURSIVE Join(_, _)
Join(sep, parts) ==
    IF parts = <<>> THEN <<>>
    ELSE IF Len(parts) = 1 THEN parts[1]
    ELSE parts[1] \o sep \o Join(sep, Tail(parts))

\* _format_function_signature
FormatFunctionSignature(func) ==
    LET parts == (IF func.return_type # None THEN <<func.return_type>> ELSE <<>>)
                 \o <<<<"Function", " ">> \o func.name>>
        params == IF func.parameters # <<>>
                  THEN <<"(">> \o Join(<<",", " ">>, func.parameters) \o <<")">>
                  ELSE <<"(", ")">>
        native_str == IF func.is_native THEN <<" ", "native">> ELSE <<>>
    IN  Join(<<" ">>, parts) \o params \o native_str

\* _format_event_signature
FormatEventSignature(event) ==
    <<"Event", " ">> \o event.name
    \o (IF event.parameters # <<>>
        THEN <<"(">> \o Join(<<",", " ">>, event.parameters) \o <<")">>
        ELSE <<"(", ")">>)

RECURSIVE FunctionLines(_)
FunctionLines(fs) ==
    IF fs = <<>> THEN <<>> ELSE <<FormatFunctionSignature(Head(fs))>> \o FunctionLines(Tail(fs))

RECURSIVE EventLines(_)
EventLines(es) ==
    IF es = <<>> THEN <<>> ELSE <<FormatEventSignature(Head(es))>> \o EventLines(Tail(es))

PropertyLine(prop) ==
    prop.type_name \o <<" ", "Property", " ">> \o prop.name
    \o (IF prop.flags # <<>> THEN <<" ">> \o Join(<<" ">>, prop.flags) ELSE <<>>)

RECURSIVE PropertyLines(_)
PropertyLines(ps) ==
    IF ps = <<>> THEN <<>> ELSE <<PropertyLine(Head(ps))>> \o PropertyLines(Tail(ps))

\* The lines list with the separator put before the events whether or not
\* there are functions.
HeaderLinesAlwaysSeparated(parsed) ==
    LET script_line == <<"Scriptname", " ">> \o parsed.script_name
                       \o (IF parsed.extends # None
                           THEN <<" ", "extends", " ">> \o parsed.extends ELSE <<>>)
                       \o (IF parsed.flags # <<>>
                           THEN <<" ">> \o Join(<<" ">>, parsed.flags) ELSE <<>>)
    IN  <<script_line, <<>>>>
        \o (IF parsed.properties # <<>>
            THEN PropertyLines(parsed.properties) \o <<<<>>>> ELSE <<>>)
        \o FunctionLines(parsed.functions)
        \o (IF parsed.events # <<>>
            THEN <<<<>>>> \o EventLines(parsed.events)
            ELSE <<>>)

\* The lines list built by _generate_header_content.
HeaderLines(parsed) ==
    LET script_line == <<"Scriptname", " ">> \o parsed.script_name
                       \o (IF parsed.extends # None
                           THEN <<" ", "extends", " ">> \o parsed.extends ELSE <<>>)
                       \o (IF parsed.flags # <<>>
                           THEN <<" ">> \o Join(<<" ">>, parsed.flags) ELSE <<>>)
    IN  <<script_line, <<>>>>
        \o (IF parsed.properties # <<>>
            THEN PropertyLines(parsed.properties) \o <<<<>>>> ELSE <<>>)
        \o FunctionLines(parsed.functions)
        \o (IF parsed.events # <<>>
            THEN (IF parsed.functions # <<>> THEN <<<<>>>> ELSE <<>>)
                 \o EventLines(parsed.events)
            ELSE <<>>)

\* _generate_header_content: '\n'.join(lines) + '\n'
GenerateHeaderContent(parsed) == JoinLines(HeaderLines(parsed)) \o <<"\n">>

----------------------------------------------------------------------------
\* Inputs.

\* Bounds of the model.
MaxLines == 3
MaxLen == 5
MaxBlockLines == 5
MaxParamLen == 5
MaxWrapParams == 3

\* All texts of at most n tokens over an alphabet.
FreeTexts(alphabet, n) == UNION {[1..k -> alphabet] : k \in 0..n}

\* All texts of at most n lines, each line taken from a set of lines.
LineTexts(lineSet, n) == UNION {{JoinLines(f) : f \in [1..k -> lineSet]} : k \in 0..n}

\* All sequences of at most n lines, each line taken from a set of lines.
LineSeqs(lineSet, n) == UNION {[1..k -> lineSet] : k \in 0..n}

\* First line of a source file, when it is a script header.
HeaderChoices ==
    { <<"Scriptname", " ", "Foo", " ", "extends", " ", "Bar", " ", "Hidden">>,
      <<"scriptname", " ", "Foo", " ", "Conditional">>,
      <<"Scriptname", " ", "Foo">> }

\* Lines of the body of a source file: pieces of a header, function
\* declarations on one line and wrapped over several, malformed ones, an event
\* declaration, property declarations.
BodyLines ==
    { <<"Scriptname">>,
      <<"Hidden">>,
      <<"Function", " ", "DoThing", "(", "int", " ", "a", ",">>,
      <<"int", " ", "c", ",">>,
      <<" ", " ", "int", " ", "b", ")", " ", "native">>,
      <<"Int", " ", "Function", " ", "Get", "(", ")">>,
      <<"Function", " ", "G", "(", "a", " ", "=", " ", "f", "(", "1", ",", "2", ")", ")",
        " ", "NATIVE", " ", "global">>,
      <<"Function", " ", "Foo">>,
      <<"Function", " ", "Bad", "(", ")", "=">>,
      <<"Event", " ", "OnInit", "(", "int", " ", "a", ")">>,
      <<"Int", " ", "Property", " ", "Hidden", " ", "Auto">>,
      <<"Int", " ", "Property", " ", "Hidden">>,
      <<"GlobalVariable", " ", "Property", " ", "G">>,
      <<"Int", " ", "Property", " ", "A", " ", "=", " ", "5", " ", "Auto">>,
      <<"Auto">> }

\* The source files: an optional header line, then at most MaxLines body lines.
SourceTexts ==
    {JoinLines(h \o b) : h \in {<<>>} \cup {<<x>> : x \in HeaderChoices},
                         b \in LineSeqs(BodyLines, MaxLines)}

\* The name of the i-th parameter of the wrapped declaration.
ParamName(i) == CASE i = 1 -> "a" [] i = 2 -> "b" [] i = 3 -> "c" [] i = 4 -> "d" [] OTHER -> "e"

\* The parameters int a, int b, ... of a declaration with n parameters.
WrapParams(n) == [i \in 1..n |-> <<"int", " ", ParamName(i)>>]

\* Function DoThing(int a, int b, ...) native on one line.
WrapDeclaration(n) ==
    <<"Function", " ", "DoThing", "(">> \o Join(<<",", " ">>, WrapParams(n))
    \o <<")", " ", "native">>

\* The blanks inside the parameter list of a declaration.
ParamBlanks(d) == {i \in 1..Len(d) : d[i] = " " /\ IndexOf(d, "(") < i /\ i < IndexOf(d, ")")}

\* The source files that hold a header and the declaration with n parameters,
\* its parameter list broken into lines at any of its blanks.
WrapTexts(n) ==
    {<<"Scriptname", " ", "Foo", "\n">>
        \o [i \in 1..Len(WrapDeclaration(n)) |->
                IF i \in S THEN "\n" ELSE WrapDeclaration(n)[i]] :
     S \in SUBSET ParamBlanks(WrapDeclaration(n))}

\* The broken declarations, by number of parameters.
WrapTextsOf == [n \in 1..MaxWrapParams |-> WrapTexts(n)]

\* Characters of the preprocessor's input: a word, blank, newline, the comment
\* characters and the continuation backslash.
PreAlphabet == {"a", " ", "\n", ";", "/", "\\"}

\* Lines around a block comment: declarations, an opening line, an interior
\* line, a closing line, a line that opens and closes.
BlockLines ==
    { <<"a">>, <<"b", " ", "c">>,
      <<";", "/", " ", "x">>,
      <<"x">>,
      <<"x", " ", "/", ";">>,
      <<";", "/", "x", "/", ";">> }

\* Characters of a parameter list.
ParamAlphabet == {"a", " ", ",", "(", ")"}

\* splitParameters("a As Int, b As Float = foo(1,2)") of the specification.
ParamExample ==
    <<"a", " ", "As", " ", "Int", ",", " ", "b", " ", "As", " ", "Float", " ", "=", " ",
      "foo", "(", "1", ",", "2", ")">>

----------------------------------------------------------------------------
\* The state machine: PapyrusParser.parse_file followed by
\* HeaderGenerator.generate_header on one source file.

\* Nothing parsed yet.
Unset == [ok |-> FALSE, error |-> "unset"]

\* No file bytes, no batch and no line loop in progress.
NoFile == file_bytes = <<>>

NoBatch ==
    /\ psc_files = <<>>
    /\ source_matches = <<>>
    /\ idx = 0
    /\ processed_count = 0
    /\ missing_sources = <<>>

NoLoops ==
    /\ line_no = 0
    /\ block_comment = FALSE
    /\ kept_lines = <<>>
    /\ func_declaration = <<>>
    /\ spans = <<>>
    /\ examined = {}

Start(texts) ==
    /\ pc = "read"
    /\ content \in texts
    /\ clean = <<>>
    /\ script = Unset
    /\ functions = <<>>
    /\ events = <<>>
    /\ properties = <<>>
    /\ header = <<>>
    /\ params_str = <<>>
    /\ parameters = <<>>
    /\ NoFile /\ NoBatch /\ NoLoops

Init == Start(SourceTexts \cup UNION {WrapTextsOf[n] : n \in 1..MaxWrapParams})

\* parse_file line 81
Preprocess ==
    /\ pc = "read"
    /\ clean' = PreprocessContent(content)
    /\ pc' = "preprocessed"
    /\ UNCHANGED <<content, script, functions, events, properties, header,
                   params_str, parameters>>
    /\ UNCHANGED <<file_bytes, batch, loops>>

\* parse_file line 83: the ValueError leaves parse_file.
ScriptDeclaration ==
    /\ pc = "preprocessed"
    /\ script' = ParseScriptDeclaration(clean)
    /\ pc' = IF script'.ok THEN "declared" ELSE "error"
    /\ UNCHANGED <<content, clean, functions, events, properties, header,
                   params_str, parameters>>
    /\ UNCHANGED <<file_bytes, batch, loops>>

\* parse_file with a functions list that belongs to the parser instance and
\* is not emptied between two files.
FunctionsAppending ==
    /\ pc = "declared"
    /\ functions' = functions \o ParseFunctions(clean)
    /\ pc' = "functions"
    /\ UNCHANGED <<content, clean, script, events, properties, header,
                   params_str, parameters>>
    /\ UNCHANGED <<file_bytes, batch, loops>>

\* parse_file line 85
Functions ==
    /\ pc = "declared"
    /\ functions' = ParseFunctions(clean)
    /\ pc' = "functions"
    /\ UNCHANGED <<content, clean, script, events, properties, header,
                   params_str, parameters>>
    /\ UNCHANGED <<file_bytes, batch, loops>>

\* parse_file line 87
Events ==
    /\ pc = "functions"
    /\ events' = <<>>
    /\ pc' = "events"
    /\ UNCHANGED <<content, clean, script, functions, properties, header,
                   params_str, parameters>>
    /\ UNCHANGED <<file_bytes, batch, loops>>

\* parse_file lines 89-98
Properties ==
    /\ pc = "events"
    /\ properties' = ParseProperties(clean)
    /\ pc' = "parsed"
    /\ UNCHANGED <<content, clean, script, functions, events, header,
                   params_str, parameters>>
    /\ UNCHANGED <<file_bytes, batch, loops>>

\* The ParsedScript returned by parse_file.
ParsedScript ==
    [script_name |-> script.script_name, extends |-> script.extends,
     flags |-> script.flags, functions |-> functions, events |-> events,
     properties |-> properties]

\* generate_header: the content written to the header file.
GenerateHeader ==
    /\ pc = "parsed"
    /\ header' = GenerateHeaderContent(ParsedScript)
    /\ pc' = "done"
    /\ UNCHANGED <<content, clean, script, functions, events, properties,
                   params_str, parameters>>
    /\ UNCHANGED <<file_bytes, batch, loops>>

Next ==
    \/ Preprocess
    \/ ScriptDeclaration
    \/ Functions
    \/ Events
    \/ Properties
    \/ GenerateHeader

Spec == Init /\ [][Next]_vars

----------------------------------------------------------------------------
\* parse_file and generate_header on the source files that begin with the
\* plain header line.

InitPlain ==
    Start({JoinLines(<<<<"Scriptname", " ", "Foo">>>> \o b) : b \in LineSeqs(BodyLines, MaxLines)})

SpecPlain == InitPlain /\ [][Next]_vars

----------------------------------------------------------------------------
\* The preprocessor alone, applied to a text and again to its own output.

InitPre ==
    Start(FreeTexts(PreAlphabet, MaxLen) \cup LineTexts(BlockLines, MaxBlockLines))

Reprocess ==
    /\ pc = "preprocessed"
    /\ content' = clean
    /\ clean' = PreprocessContent(clean)
    /\ pc' = "reprocessed"
    /\ UNCHANGED <<script, functions, events, properties, header,
                   params_str, parameters>>
    /\ UNCHANGED <<file_bytes, batch, loops>>

NextPre == Preprocess \/ Reprocess

SpecPre == InitPre /\ [][NextPre]_vars

----------------------------------------------------------------------------
\* The parameter splitter alone.

InitSplit ==
    /\ pc = "split"
    /\ params_str \in FreeTexts(ParamAlphabet, MaxParamLen) \cup {ParamExample}
    /\ parameters = <<>>
    /\ content = <<>>
    /\ clean = <<>>
    /\ script = Unset
    /\ functions = <<>>
    /\ events = <<>>
    /\ properties = <<>>
    /\ header = <<>>
    /\ NoFile /\ NoBatch /\ NoLoops

SplitParameters ==
    /\ pc = "split"
    /\ parameters' = ParseParameters(params_str)
    /\ pc' = "splitdone"
    /\ UNCHANGED <<content, clean, script, functions, events, properties, header,
                   params_str>>
    /\ UNCHANGED <<file_bytes, batch, loops>>

NextSplit == SplitParameters

SpecSplit == InitSplit /\ [][NextSplit]_vars

----------------------------------------------------------------------------
\* The comment loop of _preprocess_content, one line at a time.  line_no is
\* the position in content.split('\n'), block_comment the flag
\* in_block_comment and kept_lines the list lines.

\* The flag with the closing marker tested before the opening marker.
FlagAfterCloseFirst(flag, line) ==
    (flag /\ ~Contains2(line, "/", ";")) \/ Contains2(line, ";", "/")

\* Lines 108-111: the flag after the two marker tests on a line.
FlagAfter(flag, line) ==
    (flag \/ Contains2(line, ";", "/")) /\ ~Contains2(line, "/", ";")

\* Lines 116-117: the line without its line comment.
CutComment(line) ==
    IF IndexOf(line, ";") # 0 THEN Upto(line, IndexOf(line, ";") - 1) ELSE line

InitComments ==
    /\ pc = "comments"
    /\ content \in FreeTexts(PreAlphabet, MaxLen) \cup LineTexts(BlockLines, MaxBlockLines)
    /\ line_no = 1
    /\ block_comment = FALSE
    /\ kept_lines = <<>>
    /\ func_declaration = <<>>
    /\ spans = <<>>
    /\ examined = {}
    /\ clean = <<>>
    /\ script = Unset
    /\ functions = <<>>
    /\ events = <<>>
    /\ properties = <<>>
    /\ header = <<>>
    /\ params_str = <<>>
    /\ parameters = <<>>
    /\ NoFile /\ NoBatch

\* Lines 108-114: the line closes a block comment or lies in one.
SkipCommentLine ==
    /\ pc = "comments"
    /\ line_no <= Len(SplitLines(content))
    /\ LET line == SplitLines(content)[line_no]
       IN  /\ Contains2(line, "/", ";") \/ FlagAfter(block_comment, line)
           /\ block_comment' = FlagAfter(block_comment, line)
    /\ line_no' = line_no + 1
    /\ UNCHANGED <<pc, content, clean, script, functions, events, properties, header,
                   params_str, parameters, file_bytes, batch, kept_lines,
                   func_declaration, spans, examined>>

\* Lines 116-119: outside a block comment, nothing is left of the line.
DropBlankLine ==
    /\ pc = "comments"
    /\ line_no <= Len(SplitLines(content))
    /\ LET line == SplitLines(content)[line_no]
       IN  /\ ~Contains2(line, "/", ";") /\ ~FlagAfter(block_comment, line)
           /\ Strip(CutComment(line)) = <<>>
           /\ block_comment' = FlagAfter(block_comment, line)
    /\ line_no' = line_no + 1
    /\ UNCHANGED <<pc, content, clean, script, functions, events, properties, header,
                   params_str, parameters, file_bytes, batch, kept_lines,
                   func_declaration, spans, examined>>

\* Lines 116-120: outside a block comment, the line is kept.
KeepLine ==
    /\ pc = "comments"
    /\ line_no <= Len(SplitLines(content))
    /\ LET line == SplitLines(content)[line_no]
       IN  /\ ~Contains2(line, "/", ";") /\ ~FlagAfter(block_comment, line)
           /\ Strip(CutComment(line)) # <<>>
           /\ block_comment' = FlagAfter(block_comment, line)
           /\ kept_lines' = Append(kept_lines, CutComment(line))
    /\ line_no' = line_no + 1
    /\ UNCHANGED <<pc, content, clean, script, functions, events, properties, header,
                   params_str, parameters, file_bytes, batch, func_declaration, spans,
                   examined>>

\* The end of the comment loop.
EndComments ==
    /\ pc = "comments"
    /\ line_no > Len(SplitLines(content))
    /\ pc' = "commentsdone"
    /\ UNCHANGED <<content, clean, script, functions, events, properties, header,
                   params_str, parameters, file_bytes, batch, loops>>

NextComments ==
    \/ SkipCommentLine
    \/ DropBlankLine
    \/ KeepLine
    \/ EndComments

SpecComments == InitComments /\ [][NextComments]_vars

----------------------------------------------------------------------------
\* The function scan of _parse_functions, one line at a time.  line_no is
\* the index i of the code plus one; spans records, for each candidate, its
\* first line and the last line appended to it, and examined the lines
\* tested as a declaration start.

\* The condition of the inner while loop without its test for a ")".
MoreToAppendAnyway(ls, i, declaration) == i + 1 <= Len(ls)

\* The condition of the inner while loop (line 164).
MoreToAppend(ls, i, declaration) == i + 1 <= Len(ls) /\ IndexOf(declaration, ")") = 0

InitScan ==
    /\ pc = "scan"
    /\ clean \in LineTexts(BodyLines, MaxLines)
    /\ line_no = 1
    /\ func_declaration = <<>>
    /\ functions = <<>>
    /\ spans = <<>>
    /\ examined = {}
    /\ block_comment = FALSE
    /\ kept_lines = <<>>
    /\ content = <<>>
    /\ script = Unset
    /\ events = <<>>
    /\ properties = <<>>
    /\ header = <<>>
    /\ params_str = <<>>
    /\ parameters = <<>>
    /\ NoFile /\ NoBatch

\* Lines 157-161 and 173: the line is not a declaration start.
SkipLine ==
    /\ pc = "scan"
    /\ line_no <= Len(SplitLines(clean))
    /\ ~StartsFunction(Strip(SplitLines(clean)[line_no]))
    /\ examined' = examined \cup {line_no}
    /\ line_no' = line_no + 1
    /\ UNCHANGED <<pc, content, clean, script, functions, events, properties, header,
                   params_str, parameters, file_bytes, batch, block_comment, kept_lines,
                   func_declaration, spans>>

\* Lines 157-162: the line starts a candidate.
StartCandidate ==
    /\ pc = "scan"
    /\ line_no <= Len(SplitLines(clean))
    /\ StartsFunction(Strip(SplitLines(clean)[line_no]))
    /\ examined' = examined \cup {line_no}
    /\ func_declaration' = Strip(SplitLines(clean)[line_no])
    /\ spans' = Append(spans, [first |-> line_no, last |-> line_no])
    /\ pc' = "reassemble"
    /\ UNCHANGED <<content, clean, script, functions, events, properties, header,
                   params_str, parameters, file_bytes, batch, line_no, block_comment,
                   kept_lines>>

\* Lines 164-166: one more line is appended to the candidate.
AppendLine ==
    /\ pc = "reassemble"
    /\ MoreToAppend(SplitLines(clean), line_no, func_declaration)
    /\ line_no' = line_no + 1
    /\ func_declaration' = func_declaration \o <<" ">> \o Strip(SplitLines(clean)[line_no + 1])
    /\ spans' = [spans EXCEPT ![Len(spans)].last = line_no + 1]
    /\ UNCHANGED <<pc, content, clean, script, functions, events, properties, header,
                   params_str, parameters, file_bytes, batch, block_comment, kept_lines,
                   examined>>

\* Lines 168-173: the candidate is parsed and the scan moves to the next line.
ParseCandidate ==
    /\ pc = "reassemble"
    /\ ~MoreToAppend(SplitLines(clean), line_no, func_declaration)
    /\ functions' = functions \o ParseSingleFunction(func_declaration)
    /\ line_no' = line_no + 1
    /\ pc' = "scan"
    /\ UNCHANGED <<content, clean, script, events, properties, header, params_str,
                   parameters, file_bytes, batch, block_comment, kept_lines,
                   func_declaration, spans, examined>>

\* Line 175: the scan is over.
ReturnFunctions ==
    /\ pc = "scan"
    /\ line_no > Len(SplitLines(clean))
    /\ pc' = "scanned"
    /\ UNCHANGED <<content, clean, script, functions, events, properties, header,
                   params_str, parameters, file_bytes, batch, loops>>

NextScan ==
    \/ SkipLine
    \/ StartCandidate
    \/ AppendLine
    \/ ParseCandidate
    \/ ReturnFunctions

SpecScan == InitScan /\ [][NextScan]_vars

----------------------------------------------------------------------------
\* The emitter alone, applied to any parse result.

\* At most this many signatures in each list of a parse result.
MaxSigs == 2

\* Script declarations of a parse result.
ScriptChoices ==
    {[ok |-> TRUE, script_name |-> <<"Foo">>, extends |-> <<"Bar">>, flags |-> <<<<"Hidden">>>>],
     [ok |-> TRUE, script_name |-> <<"Foo">>, extends |-> None, flags |-> <<>>]}

\* Function signatures: with a return type and no parameters, and without a
\* return type and with two parameters.
FunctionChoices ==
    {[name |-> <<"Get">>, return_type |-> <<"Int">>, parameters |-> <<>>,
      is_native |-> TRUE, is_event |-> FALSE, flags |-> <<"native">>],
     [name |-> <<"DoThing">>, return_type |-> None,
      parameters |-> <<<<"int", " ", "a">>, <<"int", " ", "b">>>>,
      is_native |-> TRUE, is_event |-> FALSE, flags |-> <<"native">>]}

\* Event signatures, as _parse_single_event builds them.
EventChoices ==
    {[name |-> <<"OnInit">>, return_type |-> None, parameters |-> <<<<"int", " ", "a">>>>,
      is_native |-> FALSE, is_event |-> TRUE, flags |-> <<>>],
     [name |-> <<"OnLoad">>, return_type |-> None, parameters |-> <<>>,
      is_native |-> FALSE, is_event |-> TRUE, flags |-> <<>>]}

\* Property signatures, with and without a flag.
PropertyChoices ==
    {[name |-> <<"A">>, type_name |-> <<"Int">>, flags |-> <<<<"Auto">>>>],
     [name |-> <<"G">>, type_name |-> <<"GlobalVariable">>, flags |-> <<>>]}

InitEmit ==
    /\ pc = "parsed"
    /\ script \in ScriptChoices
    /\ functions \in LineSeqs(FunctionChoices, MaxSigs)
    /\ events \in LineSeqs(EventChoices, MaxSigs)
    /\ properties \in LineSeqs(PropertyChoices, MaxSigs)
    /\ content = <<>>
    /\ clean = <<>>
    /\ header = <<>>
    /\ params_str = <<>>
    /\ parameters = <<>>
    /\ NoFile /\ NoBatch /\ NoLoops

NextEmit == GenerateHeader

SpecEmit == InitEmit /\ [][NextEmit]_vars

----------------------------------------------------------------------------
\* Reading the source file: parse_file lines 73-78.  The file is a sequence
\* of bytes (0..255) and the text read from it a sequence of code points.

\* A continuation byte 10xxxxxx.
IsContinuation(b) == 128 <= b /\ b <= 191

\* The second byte a lead byte of a three- or four-byte sequence admits.
SecondOk(lead, b) ==
    CASE lead = 224 -> 160 <= b /\ b <= 191
      [] lead = 237 -> 128 <= b /\ b <= 159
      [] lead = 240 -> 144 <= b /\ b <= 191
      [] lead = 244 -> 128 <= b /\ b <= 143
      [] OTHER -> IsContinuation(b)

\* The number of bytes of the sequence a lead byte announces, 0 for a byte
\* that cannot start one.
SequenceLength(lead) ==
    IF lead < 128 THEN 1
    ELSE IF 194 <= lead /\ lead <= 223 THEN 2
    ELSE IF 224 <= lead /\ lead <= 239 THEN 3
    ELSE IF 240 <= lead /\ lead <= 244 THEN 4
    ELSE 0

\* The bytes of s from position 2 on that continue the sequence its first
\* byte starts: how many of them are right, up to the announced length.
GoodPrefix(s) ==
    LET n == SequenceLength(s[1])
        ok(k) == k <= Len(s) /\ (IF k = 2 THEN SecondOk(s[1], s[k]) ELSE IsContinuation(s[k]))
    IN  IF n >= 2 /\ ok(2)
        THEN (IF n >= 3 /\ ok(3) THEN (IF n >= 4 /\ ok(4) THEN 4 ELSE 3) ELSE 2)
        ELSE 1

\* The code point of a complete sequence of n bytes at the head of s.
CodePoint(s, n) ==
    CASE n = 1 -> s[1]
      [] n = 2 -> (s[1] - 192) * 64 + (s[2] - 128)
      [] n = 3 -> (s[1] - 224) * 4096 + (s[2] - 128) * 64 + (s[3] - 128)
      [] OTHER -> (s[1] - 240) * 262144 + (s[2] - 128) * 4096 + (s[3] - 128) * 64
                  + (s[4] - 128)

\* The utf-8 codec with errors='ignore': a complete sequence gives its code
\* point; the bytes of an invalid or cut sequence (the lead byte and the
\* bytes that rightly continue it) are left out.  No UnicodeDecodeError is
\* raised.
RECURSIVE Utf8Ignore(_)
Utf8Ignore(s) ==
    IF s = <<>> THEN <<>>
    ELSE LET n == SequenceLength(s[1])
             g == GoodPrefix(s)
         IN  IF n # 0 /\ g = n
             THEN <<CodePoint(s, n)>> \o Utf8Ignore(From(s, n + 1))
             ELSE Utf8Ignore(From(s, g + 1))

\* The newline translation of a file opened in text mode without newline=:
\* CR LF and a CR alone are read as LF.  It acts on the decoded text.
RECURSIVE TranslateNewlines(_)
TranslateNewlines(s) ==
    IF s = <<>> THEN <<>>
    ELSE IF s[1] = 13
         THEN <<10>> \o TranslateNewlines(IF Len(s) >= 2 /\ s[2] = 10 THEN From(s, 3)
                                          ELSE From(s, 2))
    ELSE <<s[1]>> \o TranslateNewlines(From(s, 2))

\* open(file_path, 'r', encoding='utf-8', errors='ignore').read()
DecodeUtf8Ignore(s) == TranslateNewlines(Utf8Ignore(s))

\* Whether the primary decode raises UnicodeDecodeError: never, with
\* errors='ignore'.
PrimaryDecodeRaises(s) == FALSE

\* open(file_path, 'r', encoding='latin1').read(): byte b is code point b,
\* then the newline translation.
DecodeLatin1(s) == TranslateNewlines([k \in 1..Len(s) |-> s[k]])

\* Bytes of a file: the letter A, CR and LF, the lead byte of a two-byte
\* sequence, a continuation byte, and the Latin-1 byte of an e acute, which
\* is the lead byte of a three-byte sequence in UTF-8.
ByteAlphabet == {65, 13, 10, 195, 169, 233}

\* At most this many bytes in a file.
MaxBytes == 4

InitDecode ==
    /\ pc = "open"
    /\ file_bytes \in FreeTexts(ByteAlphabet, MaxBytes)
    /\ content = <<>>
    /\ clean = <<>>
    /\ script = Unset
    /\ functions = <<>>
    /\ events = <<>>
    /\ properties = <<>>
    /\ header = <<>>
    /\ params_str = <<>>
    /\ parameters = <<>>
    /\ NoBatch /\ NoLoops

\* parse_file lines 73-78
ReadFile ==
    /\ pc = "open"
    /\ content' = IF PrimaryDecodeRaises(file_bytes) THEN DecodeLatin1(file_bytes)
                   ELSE DecodeUtf8Ignore(file_bytes)
    /\ pc' = "read"
    /\ UNCHANGED <<clean, script, functions, events, properties, header, params_str,
                   parameters, file_bytes, batch, loops>>

NextDecode == ReadFile

SpecDecode == InitDecode /\ [][NextDecode]_vars

----------------------------------------------------------------------------
\* The batch of main (src/papyrus_header_generator.py): every .psc file, then
\* every .pex file without a .psc, each parsed by the one parser instance and
\* written by the one generator.

\* parse_file as a function of the text of the file: what a parser instance
\* that has parsed nothing before returns or raises.
ParseFile(text) ==
    LET cleaned == PreprocessContent(text)
        declaration == ParseScriptDeclaration(cleaned)
    IN  IF ~declaration.ok THEN ValueError
        ELSE [ok |-> TRUE,
              script_name |-> declaration.script_name,
              extends |-> declaration.extends,
              flags |-> declaration.flags,
              functions |-> ParseFunctions(cleaned),
              events |-> <<>>,
              properties |-> ParseProperties(cleaned)]

\* Texts of the files of a batch: two scripts and a text without a header.
GoodA == <<"Scriptname", " ", "Foo", "\n", "Int", " ", "Function", " ", "Get", "(", ")">>
GoodB == <<"Scriptname", " ", "Bar", "\n", "Int", " ", "Property", " ", "A", " ", "Auto">>
Bad == <<"Int", " ", "Function", " ", "Get", "(", ")">>

\* A file: its text, and whether its header file can be written.
FileKinds ==
    {[text |-> GoodA, writable |-> TRUE], [text |-> GoodB, writable |-> TRUE],
     [text |-> Bad, writable |-> TRUE], [text |-> GoodA, writable |-> FALSE]}

\* A .pex file may have no source at all.
NoSourceKind == [text |-> None, writable |-> TRUE]

\* At most this many files in each of the two lists.
MaxFiles == 2

\* The number of files of the batch.
Total == Len(psc_files) + Len(source_matches)

\* The file the loops are at: its path is its position in the batch.
Current ==
    IF idx <= Len(psc_files) THEN psc_files[idx] ELSE source_matches[idx - Len(psc_files)]

InitBatch ==
    /\ pc = "loop"
    /\ psc_files \in LineSeqs(FileKinds, MaxFiles)
    /\ source_matches \in LineSeqs(FileKinds \cup {NoSourceKind}, MaxFiles)
    /\ idx = 0
    /\ processed_count = 0
    /\ missing_sources = <<>>
    /\ content = <<>>
    /\ clean = <<>>
    /\ script = Unset
    /\ functions = <<>>
    /\ events = <<>>
    /\ properties = <<>>
    /\ header = <<>>
    /\ params_str = <<>>
    /\ parameters = <<>>
    /\ NoFile /\ NoLoops

\* main lines 111-115: the next .psc file is handed to parse_file.
NextPscFile ==
    /\ pc = "loop"
    /\ idx < Len(psc_files)
    /\ idx' = idx + 1
    /\ content' = psc_files[idx + 1].text
    /\ pc' = "read"
    /\ UNCHANGED <<clean, script, functions, events, properties, header, params_str,
                   parameters, file_bytes, psc_files, source_matches, processed_count,
                   missing_sources, loops>>

\* main lines 140-150: the source of the next .pex file is handed to parse_file.
NextPexFile ==
    /\ pc = "loop"
    /\ Len(psc_files) <= idx /\ idx < Total
    /\ source_matches[idx + 1 - Len(psc_files)].text # None
    /\ idx' = idx + 1
    /\ content' = source_matches[idx + 1 - Len(psc_files)].text
    /\ pc' = "read"
    /\ UNCHANGED <<clean, script, functions, events, properties, header, params_str,
                   parameters, file_bytes, psc_files, source_matches, processed_count,
                   missing_sources, loops>>

\* main lines 143-146: a .pex file without a source is recorded and skipped.
NoSource ==
    /\ pc = "loop"
    /\ Len(psc_files) <= idx /\ idx < Total
    /\ source_matches[idx + 1 - Len(psc_files)].text = None
    /\ idx' = idx + 1
    /\ missing_sources' = Append(missing_sources, idx + 1)
    /\ UNCHANGED <<pc, content, clean, script, functions, events, properties, header,
                   params_str, parameters, file_bytes, psc_files, source_matches,
                   processed_count, loops>>

\* generate_header when the header file can be written.
WriteHeader == pc = "parsed" /\ Current.writable /\ GenerateHeader

\* generate_header lines 32-34: makedirs or open raises.
WriteFails ==
    /\ pc = "parsed"
    /\ ~Current.writable
    /\ pc' = "error"
    /\ UNCHANGED <<content, clean, script, functions, events, properties, header,
                   params_str, parameters, file_bytes, batch, loops>>

\* main lines 123 and 155
Processed ==
    /\ pc = "done"
    /\ processed_count' = processed_count + 1
    /\ pc' = "loop"
    /\ UNCHANGED <<content, clean, script, functions, events, properties, header,
                   params_str, parameters, file_bytes, psc_files, source_matches, idx,
                   missing_sources, loops>>

\* The except clause ending the whole run instead of the iteration.
FailedAborts ==
    /\ pc = "error"
    /\ missing_sources' = Append(missing_sources, idx)
    /\ pc' = "summary"
    /\ UNCHANGED <<content, clean, script, functions, events, properties, header,
                   params_str, parameters, file_bytes, psc_files, source_matches, idx,
                   processed_count, loops>>

\* main lines 125-127 and 157-159: except Exception
Failed ==
    /\ pc = "error"
    /\ missing_sources' = Append(missing_sources, idx)
    /\ pc' = "loop"
    /\ UNCHANGED <<content, clean, script, functions, events, properties, header,
                   params_str, parameters, file_bytes, psc_files, source_matches, idx,
                   processed_count, loops>>

\* main lines 161-170: the summary after both loops.
Summary ==
    /\ pc = "loop"
    /\ idx = Total
    /\ pc' = "summary"
    /\ UNCHANGED <<content, clean, script, functions, events, properties, header,
                   params_str, parameters, file_bytes, batch, loops>>

NextBatch ==
    \/ NextPscFile
    \/ NextPexFile
    \/ NoSource
    \/ Preprocess
    \/ ScriptDeclaration
    \/ Functions
    \/ Events
    \/ Properties
    \/ WriteHeader
    \/ WriteFails
    \/ Processed
    \/ Failed
    \/ Summary

SpecBatch == InitBatch /\ [][NextBatch]_vars

----------------------------------------------------------------------------
\* Properties of the script declaration.

\* The lines of the preprocessed text.
CleanLines == SplitLines(clean)

\* parse_file is past the script declaration without an error.
Declared == pc \in {"declared", "functions", "events", "parsed", "done"}

\* A line that has, on its own, the Scriptname header shape.
HeaderShape(line) == ScriptMatchAt(line, 1).ok

\* C1: when no line of the preprocessed text has the Scriptname header shape,
\* parse_file fails with the ValueError, and fails before any function or
\* property has been extracted.
C1_MissingDeclarationFails ==
    (pc \notin {"read", "preprocessed"}
        /\ \A i \in 1..Len(CleanLines) : ~HeaderShape(CleanLines[i]))
    => (pc = "error" /\ script = ValueError /\ functions = <<>> /\ properties = <<>>)

\* The fields a header line spells out, its words separated by single blanks:
\* Scriptname N [extends P] [F].
IsFlagWord(c) == Lower(c) \in {"hidden", "conditional"}

HeaderHead(line) ==
    Len(line) >= 3 /\ Lower(line[1]) = "scriptname" /\ line[2] = " " /\ IsWord(line[3])

HeaderExtends(line) ==
    Len(line) >= 7 /\ line[4] = " " /\ Lower(line[5]) = "extends" /\ line[6] = " "
    /\ IsWord(line[7])

IsHeaderLine(line) ==
    /\ HeaderHead(line)
    /\ \/ Len(line) = 3
       \/ Len(line) = 5 /\ line[4] = " " /\ IsFlagWord(line[5])
       \/ Len(line) = 7 /\ HeaderExtends(line)
       \/ Len(line) = 9 /\ HeaderExtends(line) /\ line[8] = " " /\ IsFlagWord(line[9])

HeaderFields(line) ==
    [ok |-> TRUE,
     script_name |-> <<line[3]>>,
     extends |-> IF HeaderExtends(line) THEN <<line[7]>> ELSE None,
     flags |-> IF Len(line) \in {5, 9} THEN <<<<line[Len(line)]>>>> ELSE <<>>]

\* C2: a source that opens with the header line Scriptname N [extends P] [F]
\* parses to script_name N, extends P (None when absent) and flags [F] (empty
\* when absent).
C2_HeaderFields ==
    (Declared /\ IsHeaderLine(CleanLines[1])) => script = HeaderFields(CleanLines[1])

----------------------------------------------------------------------------
\* Properties of the event and function lists.

\* parse_file has built its ParsedScript.
Parsed == pc \in {"parsed", "done"}

\* A line that is, on its own, a well-formed event declaration.
WellFormedEvent(line) == ParseSingleEvent(Strip(line)) # <<>>

\* The event declarations of a text, in text order.
RECURSIVE EventDeclarations(_)
EventDeclarations(ls) ==
    IF ls = <<>> THEN <<>>
    ELSE (IF WellFormedEvent(Head(ls)) THEN <<Head(ls)>> ELSE <<>>)
         \o EventDeclarations(Tail(ls))

\* C3: the events of the ParsedScript hold one signature per well-formed event
\* declaration of the text, in text order, with its name and parameters.
C3_EventsListed ==
    Parsed =>
        LET decls == EventDeclarations(CleanLines)
        IN  /\ Len(events) = Len(decls)
            /\ \A k \in 1..Len(decls) :
                  /\ events[k].name = ParseSingleEvent(Strip(decls[k]))[1].name
                  /\ events[k].parameters = ParseSingleEvent(Strip(decls[k]))[1].parameters

\* parse_file is past function extraction.
Extracted == pc \in {"functions", "events", "parsed", "done"}

\* The signature of DoThing declared native with the given parameters.
DoThing(params) ==
    [name |-> <<"DoThing">>, return_type |-> None, parameters |-> params,
     is_native |-> TRUE, is_event |-> FALSE, flags |-> <<"native">>]

\* The lines of the wrapped declaration among the body lines.
WrapHead == <<"Function", " ", "DoThing", "(", "int", " ", "a", ",">>
WrapMiddle == <<"int", " ", "c", ",">>
WrapTail == <<" ", " ", "int", " ", "b", ")", " ", "native">>

\* Lines i..j are the first function declaration of the text, wrapped: the
\* head, any number of middle lines, the tail.
FirstWrapped(ls, i, j) ==
    /\ \A k \in 1..(i - 1) : ~StartsFunction(Strip(ls[k]))
    /\ ls[i] = WrapHead
    /\ \A k \in (i + 1)..(j - 1) : ls[k] = WrapMiddle
    /\ ls[j] = WrapTail

\* C4: a function declaration whose parenthesis-free parameter list wraps over
\* several lines is reassembled into one candidate and gives exactly one
\* signature, with the name, all the parameters in order and is_native true:
\* for the declaration broken at any of the blanks of its parameter list, and
\* for head, middle and tail lines that open the functions of a text.
C4_WrappedDeclaration ==
    Extracted =>
        /\ \A n \in 1..MaxWrapParams :
              content \in WrapTextsOf[n] => functions = <<DoThing(WrapParams(n))>>
        /\ \A i \in 1..Len(CleanLines), j \in 1..Len(CleanLines) :
              (i < j /\ FirstWrapped(CleanLines, i, j)) =>
                  /\ functions # <<>>
                  /\ functions[1] = DoThing(<<<<"int", " ", "a">>>>
                                            \o [k \in 1..(j - i - 1) |-> <<"int", " ", "c">>]
                                            \o <<<<"int", " ", "b">>>>)
                  /\ j = Len(CleanLines) => Len(functions) = 1

\* C4 witness: the two-line declaration of the specification, parsed.
C4_Witness ==
    /\ pc = "functions"
    /\ content = <<"Scriptname", " ", "Foo", "\n">> \o WrapHead \o <<"\n">> \o WrapTail
    /\ functions = <<DoThing(<<<<"int", " ", "a">>, <<"int", " ", "b">>>>)>>

\* C9: is_native of every extracted signature is true exactly when the stored
\* flags hold the native marker.
C9_NativeIffFlag ==
    Extracted => \A k \in 1..Len(functions) :
                    functions[k].is_native <=> HasNative(functions[k].flags)

\* The function lines of the emitted stub.
StubFunctionLines == SelectSeq(SplitLines(header), StartsFunction)

\* A line that carries the native marker as one of its words.
CarriesNative(line) == \E k \in 1..Len(line) : Lower(line[k]) = "native"

\* C10: every function extracted from the source is emitted into the stub on a
\* line that carries the native marker.
C10_StubAlwaysNative ==
    pc = "done" =>
        /\ Len(StubFunctionLines) = Len(functions)
        /\ \A k \in 1..Len(StubFunctionLines) : CarriesNative(StubFunctionLines[k])

----------------------------------------------------------------------------
\* Properties of the property list.

\* The signature built from a match is in the result list.
Listed(m) == \E k \in 1..Len(properties) : properties[k] = PropertySignature(m)

\* The match came from the result list.
MatchOf(prop, ms) == \E k \in 1..Len(ms) : prop = PropertySignature(ms[k])

\* C7: a declaration matched by the property pattern is in the result list
\* exactly when its type is GlobalVariable (any case) or a captured flag
\* contains "auto" (any case); nothing else is in the list.
C7_PropertySelection ==
    Parsed =>
        LET ms == PropertyFindIter(clean, 1)
        IN  /\ \A k \in 1..Len(ms) :
                  Listed(ms[k]) <=>
                      \/ LowerEquals(Flat(ms[k].type_name), "globalvariable")
                      \/ ms[k].flag # None /\ LowerContains(Flat(ms[k].flag), "auto")
            /\ \A k \in 1..Len(properties) : MatchOf(properties[k], ms)

\* C7 witness: Int Property Hidden Auto is retained with its flag, and
\* Int Property Hidden, alone at the end of the text, is dropped.
C7_Witness ==
    /\ pc = "parsed"
    /\ clean = <<"Scriptname", " ", "Foo", "\n",
                 "Int", " ", "Property", " ", "Hidden", " ", "Auto", "\n",
                 "Int", " ", "Property", " ", "Hidden">>
    /\ properties = <<[name |-> <<"Hidden">>, type_name |-> <<"Int">>,
                       flags |-> <<<<"Auto">>>>]>>

----------------------------------------------------------------------------
\* Properties of the preprocessor.

\* C6: preprocessing is idempotent: preprocessing the preprocessed text again
\* gives the same text.  (After Reprocess, content holds the first result and
\* clean the second.)
C6_Idempotent == pc = "reprocessed" => clean = content

\* The block comment markers of a line.
Opens(line) == Contains2(line, ";", "/")
Closes(line) == Contains2(line, "/", ";")

\* A declaration line: not blank, and free of comment and continuation characters.
Declaration(line) ==
    Strip(line) # <<>> /\ \A k \in 1..Len(line) : line[k] \notin {";", "/", "\\"}

\* A declaration, a block comment, a declaration: the comment opens on the
\* second line and closes on the line before the last, the first line after
\* the opening that holds the closing marker.
AroundBlockComment(ls) ==
    /\ Len(ls) >= 4
    /\ Declaration(ls[1])
    /\ Opens(ls[2]) /\ ~Closes(ls[2])
    /\ \A k \in 3..(Len(ls) - 2) : ~Closes(ls[k])
    /\ Closes(ls[Len(ls) - 1])
    /\ Declaration(ls[Len(ls)])

\* C8: of a declaration D1, a block comment and a declaration D2 the
\* preprocessor keeps D1 and D2, in this order, and none of the comment's lines.
C8_BlockCommentRemoved ==
    (pc = "preprocessed" /\ AroundBlockComment(SplitLines(content)))
    => LET ls == SplitLines(content) IN clean = ls[1] \o <<"\n">> \o ls[Len(ls)]

\* C8 witness: a comment of three lines between two declarations, removed.
C8_Witness ==
    /\ pc = "preprocessed"
    /\ content = <<"a", "\n", ";", "/", " ", "x", "\n", "x", "\n", "x", " ", "/", ";", "\n",
                   "b", " ", "c">>
    /\ clean = <<"a", "\n", "b", " ", "c">>

----------------------------------------------------------------------------
\* Properties of the parameter splitter.

\* The parenthesis nesting depth in front of position i.
DepthBefore(s, i) ==
    Cardinality({j \in 1..(i - 1) : s[j] = "("}) - Cardinality({j \in 1..(i - 1) : s[j] = ")"})

\* The commas at nesting depth 0, with the two ends of the text.
Cuts(s) == {i \in 1..Len(s) : s[i] = "," /\ DepthBefore(s, i) = 0} \cup {0, Len(s) + 1}

\* The trimmed, non-empty segments between neighbouring cuts from position i on.
RECURSIVE SegmentsFrom(_, _)
SegmentsFrom(s, i) ==
    IF i > Len(s) THEN <<>>
    ELSE LET next == CHOOSE c \in Cuts(s) : c > i /\ \A d \in Cuts(s) : d > i => c <= d
             seg == Strip(SubSeq(s, i + 1, next - 1))
         IN  (IF seg # <<>> THEN <<seg>> ELSE <<>>) \o SegmentsFrom(s, next)

\* C5: the splitter cuts its input at exactly the commas of parenthesis depth
\* 0 and returns the segments between them in order (trimmed, empty ones
\* dropped).
C5_SplitAtDepthZero ==
    pc = "splitdone" => parameters = SegmentsFrom(params_str, 0)

\* C5 witness: a As Int, b As Float = foo(1,2) gives exactly its two parameters.
C5_Witness ==
    /\ pc = "splitdone"
    /\ params_str = ParamExample
    /\ parameters = << <<"a", " ", "As", " ", "Int">>,
                       <<"b", " ", "As", " ", "Float", " ", "=", " ", "foo", "(", "1", ",",
                         "2", ")">> >>

----------------------------------------------------------------------------
\* Order of the declarations.

\* The last line of the candidate that starts on line s: the first line from
\* s on that holds a ")", or the last line of the text.
LastLineOf(ls, s) ==
    LET c == {j \in s..Len(ls) : IndexOf(ls[j], ")") # 0}
    IN  IF c = {} THEN Len(ls) ELSE CHOOSE j \in c : \A k \in c : j <= k

\* Line j starts a candidate: it has the start shape of the scan and no
\* candidate that starts before it reaches it.
RECURSIVE IsCandidate(_, _)
IsCandidate(ls, j) ==
    /\ StartsFunction(Strip(ls[j]))
    /\ \A s \in 1..(j - 1) : IsCandidate(ls, s) => LastLineOf(ls, s) < j

\* The text of the candidate that starts on line s.
CandidateText(ls, s) ==
    Join(<<" ">>, [k \in 1..(LastLineOf(ls, s) - s + 1) |-> Strip(ls[s + k - 1])])

\* The declarations extracted from the candidates that start on line j or
\* later, by first line.
RECURSIVE DeclarationsFrom(_, _)
DeclarationsFrom(ls, j) ==
    IF j > Len(ls) THEN <<>>
    ELSE (IF IsCandidate(ls, j) THEN ParseSingleFunction(CandidateText(ls, j)) ELSE <<>>)
         \o DeclarationsFrom(ls, j + 1)

\* The line of the text that holds position p.
LineOf(t, p) == 1 + Cardinality({k \in 1..(p - 1) : k <= Len(t) /\ t[k] = "\n"})

\* Among the matches ms of the property pattern in t, the retained ones whose
\* type name is on line n.
PropertiesOnLine(t, ms, n) ==
    {k \in 1..Len(ms) : Retained(ms[k]) /\ LineOf(t, SkipSpace(t, ms[k].start)) = n}

\* The property signatures of the lines n.. of the text, by line.
RECURSIVE PropertiesFrom(_, _, _)
PropertiesFrom(t, ms, n) ==
    IF n > Len(SplitLines(t)) THEN <<>>
    ELSE LET here == PropertiesOnLine(t, ms, n)
         IN  (IF here = {} THEN <<>>
              ELSE <<PropertySignature(ms[CHOOSE k \in here : TRUE])>>)
             \o PropertiesFrom(t, ms, n + 1)

\* C11: the functions and the properties of a parse result are the extracted
\* declarations in the order of their first line in the cleaned text, one
\* entry per declaration: declarations of the same name are all kept.
C11_DeclarationOrder ==
    Parsed =>
        LET ms == PropertyFindIter(clean, 1)
        IN  /\ functions = DeclarationsFrom(CleanLines, 1)
            /\ properties = PropertiesFrom(clean, ms, 1)
            /\ \A n \in 1..Len(CleanLines) :
                  Cardinality(PropertiesOnLine(clean, ms, n)) <= 1

\* C11 witness: Get is declared twice and both signatures are listed, after
\* them a property.
C11_Witness ==
    /\ pc = "parsed"
    /\ Len(functions) = 2 /\ functions[1] = functions[2]
    /\ functions[1].name = <<"Get">>
    /\ Len(properties) = 1

----------------------------------------------------------------------------
\* Properties of the batch.

\* The k-th file of the batch.
FileAt(k) == IF k <= Len(psc_files) THEN psc_files[k] ELSE source_matches[k - Len(psc_files)]

\* The k-th file has a source, its text parses and its header can be written.
Succeeds(k) ==
    /\ FileAt(k).text # None
    /\ ScriptSearch(PreprocessContent(FileAt(k).text)).ok
    /\ FileAt(k).writable

\* The files among the first n that do not succeed, in order.
RECURSIVE FailedUpTo(_)
FailedUpTo(n) ==
    IF n = 0 THEN <<>>
    ELSE FailedUpTo(n - 1) \o (IF Succeeds(n) THEN <<>> ELSE <<n>>)

\* A step of the batch can be taken: a file is under way, or the loops are
\* between two files or at their end.
Continues ==
    \/ pc \in {"read", "preprocessed", "declared", "functions", "events", "parsed",
                "done", "error"} /\ idx \in 1..Total
    \/ pc = "loop" /\ idx \in 0..Total

\* C12: a file that fails never ends the batch.  Between two files the two
\* tallies account for every file attempted so far, each exactly once; the
\* run can always go on until the summary; at the summary every file has
\* been attempted, processed_count is the number of files that succeeded and
\* missing_sources lists exactly the files that did not, in order.
C12_BatchNeverAborts ==
    /\ pc \in {"loop", "summary"} =>
          /\ processed_count = Cardinality({k \in 1..idx : Succeeds(k)})
          /\ missing_sources = FailedUpTo(idx)
    /\ pc = "summary" => idx = Total
    /\ pc # "summary" => Continues

\* C12 witness: a batch of four files ends with one header written after a
\* file failed to parse, one failed to be written and one had no source.
C12_Witness ==
    /\ pc = "summary"
    /\ Total = 4
    /\ processed_count = 1
    /\ missing_sources = <<1, 2, 4>>
    /\ FileAt(1).text = Bad
    /\ ~FileAt(2).writable
    /\ FileAt(4).text = None

\* C16: parsing keeps nothing from one file to the next.  Whatever files the
\* parser instance of the batch has parsed before, successfully or not, what
\* it has extracted from the file under way is what a parser that has parsed
\* nothing extracts from the same text.
C16_NoStateAcrossFiles ==
    LET fresh == ParseFile(content)
    IN  /\ pc \in {"declared", "functions", "events", "parsed", "done"} =>
              /\ fresh.ok
              /\ script.script_name = fresh.script_name
              /\ script.extends = fresh.extends
              /\ script.flags = fresh.flags
        /\ pc \in {"functions", "events", "parsed", "done"} => functions = fresh.functions
        /\ pc \in {"events", "parsed", "done"} => events = fresh.events
        /\ pc \in {"parsed", "done"} => properties = fresh.properties
        /\ pc = "error" => script.ok = fresh.ok

\* C16 witness: the third file of a batch is parsed after a file that parsed
\* and a file that raised, and it declares the same function as the first.
C16_Witness ==
    /\ pc = "parsed"
    /\ idx = 3
    /\ FileAt(1).text = GoodA /\ FileAt(2).text = Bad /\ content = GoodA
    /\ Len(functions) = 1

----------------------------------------------------------------------------
\* Properties of the decoding.

\* The bytes are well-formed UTF-8: a strict decode would not fail.
RECURSIVE ValidUtf8(_)
ValidUtf8(s) ==
    \/ s = <<>>
    \/ /\ SequenceLength(s[1]) # 0
       /\ GoodPrefix(s) = SequenceLength(s[1])
       /\ ValidUtf8(From(s, SequenceLength(s[1]) + 1))

\* C13: when the bytes of the file are not valid UTF-8, the text handed to
\* the preprocessor is the Latin-1 decoding of the whole file.
C13_Latin1Fallback ==
    (pc = "read" /\ ~ValidUtf8(file_bytes)) => content = DecodeLatin1(file_bytes)

----------------------------------------------------------------------------
\* Properties of the emitted stub.

\* The lines of the stub; the newline that ends the stub leaves an empty
\* last element.
StubLines == SplitLines(header)

\* The number of lines before the function lines: the Scriptname line, the
\* blank line, and the property lines with their blank line when there are
\* properties.
BeforeFunctions == 2 + (IF properties # <<>> THEN Len(properties) + 1 ELSE 0)

\* The number of lines before the event lines.
BeforeEvents ==
    BeforeFunctions + Len(functions)
    + (IF functions # <<>> /\ events # <<>> THEN 1 ELSE 0)

\* C14: the stub is the Scriptname line, one blank line, the property lines
\* and one blank line (only when there are properties), the function lines,
\* one blank line (only when there are both functions and events), the event
\* lines, and nothing else: an empty list gives no line and no blank line.
C14_SectionOrder ==
    pc = "done" =>
        /\ Len(StubLines) = BeforeEvents + Len(events) + 1
        /\ StubLines[Len(StubLines)] = <<>>
        /\ StubLines[1][1] = "Scriptname"
        /\ StubLines[2] = <<>>
        /\ \A k \in 1..Len(properties) : StubLines[2 + k] = PropertyLine(properties[k])
        /\ properties # <<>> => StubLines[BeforeFunctions] = <<>>
        /\ \A k \in 1..Len(functions) :
              StubLines[BeforeFunctions + k] = FormatFunctionSignature(functions[k])
        /\ (functions # <<>> /\ events # <<>>) => StubLines[BeforeEvents] = <<>>
        /\ \A k \in 1..Len(events) :
              StubLines[BeforeEvents + k] = FormatEventSignature(events[k])
        /\ \A k \in 1..(Len(StubLines) - 1) :
              StubLines[k] = <<>> =>
                  \/ k = 2
                  \/ properties # <<>> /\ k = BeforeFunctions
                  \/ functions # <<>> /\ events # <<>> /\ k = BeforeEvents

\* C14 witness: a stub with one property, two functions and one event, and a
\* stub with events and no functions.
C14_Witness ==
    /\ pc = "done"
    /\ \/ Len(properties) = 1 /\ Len(functions) = 2 /\ Len(events) = 1
       \/ properties = <<>> /\ functions = <<>> /\ Len(events) = 2

----------------------------------------------------------------------------
\* Properties of the function scan.

\* The lines appended to the k-th candidate after its first line.
AppendedTo(k) == (spans[k].first + 1)..spans[k].last

\* The lines appended to some candidate.
Appended == UNION {AppendedTo(k) : k \in 1..Len(spans)}

\* The k-th candidate is complete: it is not the one being reassembled.
Complete(k) == k < Len(spans) \/ pc # "reassemble"

\* Line j holds a closing parenthesis.
HoldsClose(j) == IndexOf(CleanLines[j], ")") # 0

\* C19: every line appended to a candidate is consumed.  No line belongs to
\* two candidates; no appended line is examined as a declaration start; the
\* scan resumes on the line after the last appended one, so that every line
\* before the scan position is either examined or appended; lines are
\* appended only while the text holds no ")", and a complete candidate ends
\* on a line that holds one or on the last line of the input.
C19_AppendedLinesConsumed ==
    pc \in {"scan", "reassemble", "scanned"} =>
        /\ \A k \in 1..Len(spans) :
              /\ spans[k].first <= spans[k].last
              /\ spans[k].first \in examined
              /\ k < Len(spans) => spans[k].last < spans[k + 1].first
              /\ \A j \in spans[k].first..(spans[k].last - 1) : ~HoldsClose(j)
              /\ Complete(k) => HoldsClose(spans[k].last) \/ spans[k].last = Len(CleanLines)
        /\ examined \cap Appended = {}
        /\ pc = "reassemble" => line_no = spans[Len(spans)].last
        /\ pc = "scan" => examined \cup Appended = 1..(line_no - 1)
        /\ pc = "scanned" =>
              /\ examined \cup Appended = 1..Len(CleanLines)
              /\ functions = ParseFunctions(clean)

\* C19 witness: a declaration wrapped over two lines, then a declaration on
\* the line after it.
C19_Witness ==
    /\ pc = "scanned"
    /\ spans = <<[first |-> 1, last |-> 2], [first |-> 3, last |-> 3]>>
    /\ examined = {1, 3}
    /\ Len(functions) = 2

\* Function <identifier> ( from the Function keyword at position f.
ShapeAt(line, f) ==
    /\ FunctionKeyword(line, f)
    /\ LET o == SkipSpace(line, SkipWord(line, SkipSpace(line, f + 1)))
       IN  o <= Len(line) /\ line[o] = "("

\* The line has the shape [<identifier> ] Function <identifier> ( at its
\* start: an opening parenthesis follows the function name on the line.
DeclarationStartShape(line) ==
    LET a == SkipSpace(line, 1)
        w == SkipWord(line, a)
    IN  \/ /\ a <= Len(line) /\ IsWord(line[a])
           /\ w <= Len(line) /\ IsSpace(line[w])
           /\ ShapeAt(line, SkipSpace(line, w))
        \/ ShapeAt(line, a)

\* C20: a line starts a candidate only if it has the shape
\* [<identifier> ] Function <identifier> ( ; a line Function Foo without an
\* opening parenthesis starts none.
C20_StartNeedsParenthesis ==
    pc \in {"scan", "reassemble", "scanned"} =>
        \A k \in 1..Len(spans) : DeclarationStartShape(Strip(CleanLines[spans[k].first]))

\* The text of the k-th candidate.
TextOf(k) ==
    Join(<<" ">>, [j \in 1..(spans[k].last - spans[k].first + 1) |->
                      Strip(CleanLines[spans[k].first + j - 1])])

\* The k-th candidate fails the full function pattern.
Dropped(k) == ParseSingleFunction(TextOf(k)) = <<>>

\* The line is, on its own, a well-formed function declaration.
WellFormedDeclaration(line) == ParseSingleFunction(Strip(line)) # <<>>

\* C15: a candidate that fails the full function pattern is dropped without
\* an error, and it alone: the scan returns, the list holds one signature for
\* every other candidate, and no well-formed declaration of the file is lost
\* with the dropped candidate.
C15_MalformedDropped ==
    pc = "scanned" =>
        /\ Len(functions) = Cardinality({k \in 1..Len(spans) : ~Dropped(k)})
        /\ \A k \in 1..Len(spans) :
              Dropped(k) => \A j \in AppendedTo(k) : ~WellFormedDeclaration(CleanLines[j])

----------------------------------------------------------------------------
\* Properties of the comment loop.

\* The lines of the text being preprocessed.
SourceLines == SplitLines(content)

\* A block comment is open in front of line j: a line before j holds the
\* opening marker and neither it nor a line between it and j holds the
\* closing marker.
InsideBefore(j) ==
    \E o \in 1..(j - 1) :
        Opens(SourceLines[o]) /\ \A m \in o..(j - 1) : ~Closes(SourceLines[m])

\* Line j is emitted: it holds no marker, no comment is open in front of it,
\* and something is left of it without its line comment.
Emitted(j) ==
    /\ ~Opens(SourceLines[j]) /\ ~Closes(SourceLines[j])
    /\ ~InsideBefore(j)
    /\ Strip(CutComment(SourceLines[j])) # <<>>

\* The lines emitted among the first n.
RECURSIVE EmittedUpTo(_)
EmittedUpTo(n) ==
    IF n = 0 THEN <<>>
    ELSE EmittedUpTo(n - 1) \o (IF Emitted(n) THEN <<CutComment(SourceLines[n])>> ELSE <<>>)

\* C17: the block-comment flag is one flag, set by a line that holds the
\* opening marker and cleared by a line that holds the closing marker, the
\* opening tested first.  From a line with the opening marker to the next
\* line with the closing marker no line is emitted, these two lines included;
\* a line with both markers is skipped and leaves the flag false, so the line
\* after it is emitted normally.
C17_BlockCommentFlag ==
    pc \in {"comments", "commentsdone"} =>
        /\ block_comment = InsideBefore(line_no)
        /\ kept_lines = EmittedUpTo(line_no - 1)
        /\ \A j \in 1..(line_no - 1) :
              (Opens(SourceLines[j]) /\ Closes(SourceLines[j])) => ~InsideBefore(j + 1)
        /\ pc = "commentsdone" => kept_lines = RemoveComments(SourceLines, FALSE)

\* C17 witness: a line that opens and closes a comment, and the declaration
\* after it emitted; before them a comment of two lines and nothing of it
\* emitted.
C17_Witness ==
    /\ pc = "commentsdone"
    /\ SourceLines = <<<<";", "/", " ", "x">>, <<"x", " ", "/", ";">>,
                       <<";", "/", "x", "/", ";">>, <<"a">>>>
    /\ kept_lines = <<<<"a">>>>
    /\ ~block_comment

----------------------------------------------------------------------------
\* Properties of the continuation pass.

\* The lines kept by the comment loop.
KeptLines == RemoveComments(SplitLines(content), FALSE)

\* The kept line j ends, after right-trim, with a backslash.
Continued(j) ==
    LET r == RStrip(KeptLines[j]) IN r # <<>> /\ r[Len(r)] = "\\"

\* The kept lines that end a logical line, and their number.
Terminators == {j \in 1..Len(KeptLines) : ~Continued(j)}

\* The k-th terminator.
Terminator(k) ==
    CHOOSE j \in Terminators : Cardinality({m \in Terminators : m < j}) = k - 1

\* The kept line j without its trailing backslash, one space appended.
Folded(j) ==
    LET r == RStrip(KeptLines[j]) IN Upto(r, Len(r) - 1) \o <<" ">>

\* The lines a..b folded, one after the other.
RECURSIVE FoldedRun(_, _)
FoldedRun(a, b) == IF a > b THEN <<>> ELSE Folded(a) \o FoldedRun(a + 1, b)

\* The logical line that ends with the k-th terminator: the run of continued
\* lines in front of it, folded, then the terminator itself.
LogicalLine(k) ==
    LET first == IF k = 1 THEN 1 ELSE Terminator(k - 1) + 1
    IN  FoldedRun(first, Terminator(k) - 1) \o KeptLines[Terminator(k)]

\* A run of continued lines that reaches the end of the input.
TrailingRun ==
    LET first == IF Terminators = {} THEN 1
                 ELSE Terminator(Cardinality(Terminators)) + 1
    IN  FoldedRun(first, Len(KeptLines))

\* C18: every maximal run of kept lines that end with a backslash is emitted,
\* with the first line after it that does not, as one logical line: the
\* lines of the run, each without its backslash and with one space appended,
\* then the terminating line.  A line outside a run is emitted unchanged, and
\* the logical lines are in the order of the input; a run that reaches the
\* end of the input is emitted by itself.
C18_ContinuationRuns ==
    pc = "preprocessed" =>
        clean = JoinLines([k \in 1..Cardinality(Terminators) |-> LogicalLine(k)]
                          \o (IF TrailingRun # <<>> THEN <<TrailingRun>> ELSE <<>>))

\* C18 witness: a run of two continued lines and the line that ends it give
\* one logical line.
C18_Witness ==
    /\ pc = "preprocessed"
    /\ content = <<"\\", "\n", "\\", "\n", "a">>
    /\ clean = <<" ", " ", "a">>

----------------------------------------------------------------------------
\* Property declarations with a default expression.

\* The head `<type> Property <name>` of a declaration written on one line:
\* the positions of the type, of the keyword, of the name and of what
\* follows the name.
DeclarationHead(line) ==
    LET a == SkipSpace(line, 1)
        w == SkipWord(line, a)
        k == SkipSpace(line, w)
        n == SkipSpace(line, k + 1)
        n2 == SkipWord(line, n)
    IN  [ok |-> /\ a <= Len(line) /\ IsWord(line[a])
                /\ w <= Len(line) /\ IsSpace(line[w])
                /\ Keyword(line, k, "property")
                /\ k + 1 <= Len(line) /\ IsSpace(line[k + 1])
                /\ n <= Len(line) /\ IsWord(line[n]),
         type_name |-> SubSeq(line, a, w - 1),
         name |-> SubSeq(line, n, n2 - 1),
         after |-> SkipSpace(line, n2)]

\* A line of the shape `<type> Property <name> = <default> Auto`: after the
\* name an "=", a default expression that is not empty, and the auto flag as
\* the last word of the line.
DefaultAndAuto(line) ==
    LET h == DeclarationHead(line)
        r == RStrip(line)
    IN  /\ h.ok
        /\ h.after <= Len(line) /\ line[h.after] = "="
        /\ Len(r) >= h.after + 3
        /\ Lower(r[Len(r)]) \in {"auto", "autoreadonly"}
        /\ IsSpace(r[Len(r) - 1])
        /\ \E d \in (h.after + 1)..(Len(r) - 2) : ~IsSpace(r[d])

\* The properties list holds the declaration of the line with an auto flag.
ListedWithAuto(line) ==
    \E k \in 1..Len(properties) :
        /\ properties[k].type_name = DeclarationHead(line).type_name
        /\ properties[k].name = DeclarationHead(line).name
        /\ \E f \in 1..Len(properties[k].flags) :
              Lower(properties[k].flags[f][1]) \in {"auto", "autoreadonly"}

\* C21: every line of the cleaned text of the shape
\* `<type> Property <name> = <default> Auto` is in the properties list of the
\* parse result, with its type, its name and the auto flag among its flags.
C21_DefaultThenAuto ==
    Parsed =>
        \A j \in 1..Len(CleanLines) :
            DefaultAndAuto(CleanLines[j]) => ListedWithAuto(CleanLines[j])

----------------------------------------------------------------------------
\* Property declarations and the lines of the text.

\* The first and the last position of a match of the property pattern that
\* hold something else than whitespace: the start of the type name, and the
\* end of the flag, of the default expression or of the name.
FirstInk(t, m) == SkipSpace(t, m.start)

LastInk(t, m) ==
    LET ink == {p \in m.start..(m.end - 1) : p <= Len(t) /\ ~IsSpace(t[p])}
    IN  CHOOSE p \in ink : \A q \in ink : q <= p

\* The match lies on one line of the text: type name, keyword, name and flag.
OnOneLine(t, m) == LineOf(t, FirstInk(t, m)) = LineOf(t, LastInk(t, m))

\* C22: every property of a parse result was matched on one line of the
\* cleaned text: its type name, the Property keyword, its name and its flag
\* stand on the same line, so a declaration spread over two or more lines
\* gives no property.
C22_PropertiesOnOneLine ==
    Parsed =>
        LET ms == PropertyFindIter(clean, 1)
        IN  \A k \in 1..Len(ms) : Retained(ms[k]) => OnOneLine(clean, ms[k])

----------------------------------------------------------------------------
\* The function lines of the stub and the stored flags.

\* `[<returnType> ]Function <name>(<params joined by ", ">)` of a signature.
SignatureHead(func) ==
    (IF func.return_type # None THEN func.return_type \o <<" ">> ELSE <<>>)
    \o <<"Function", " ">> \o func.name
    \o <<"(">> \o Join(<<",", " ">>, func.parameters) \o <<")">>

\* The head followed by the flags text of the signature.
HeadThenFlags(func) ==
    SignatureHead(func) \o (IF func.flags # <<>> THEN <<" ">> \o func.flags ELSE <<>>)

\* C23: the stub holds one line per extracted function, and the line is
\* `[<returnType> ]Function <name>(<params>)` followed by the flags text
\* stored in the signature, every flag token of it included.
C23_FlagsEmitted ==
    pc = "done" =>
        /\ Len(StubFunctionLines) = Len(functions)
        /\ \A k \in 1..Len(functions) : StubFunctionLines[k] = HeadThenFlags(functions[k])

----------------------------------------------------------------------------
\* The lines of the preprocessor's result.

\* The lines of a result: none for the empty text.
ResultLines(t) == IF t = <<>> THEN <<>> ELSE SplitLines(t)

\* A line that is empty or holds whitespace only.
Blank(line) == Strip(line) = <<>>

\* C24: after the comment pass and the continuation pass, no line of the
\* preprocessed text is empty or whitespace-only, and no line holds a ";".
C24_CleanLinesInvariant ==
    pc = "preprocessed" =>
        \A j \in 1..Len(ResultLines(clean)) :
            /\ ~Blank(ResultLines(clean)[j])
            /\ IndexOf(ResultLines(clean)[j], ";") = 0

----------------------------------------------------------------------------
\* The parameter splitter and the join of the emitter.

\* ', '.join(parameters), as _format_function_signature writes a list.
Rejoined(ps) == Join(<<",", " ">>, ps)

\* An element that is not empty and has no whitespace at either end.
Trimmed(param) == param # <<>> /\ Strip(param) = param

\* C25: every element the splitter returns is trimmed and not empty; the
\* elements joined with ", " split into the same sequence again, whatever
\* the parentheses of the text; and a text of whitespace only gives the
\* empty sequence.
C25_SplitJoinRoundTrip ==
    pc = "splitdone" =>
        /\ \A k \in 1..Len(parameters) : Trimmed(parameters[k])
        /\ ParseParameters(Rejoined(parameters)) = parameters
        /\ (Strip(params_str) = <<>> => parameters = <<>>)

\* C25 witness: two elements, the first one trimmed, the second with an
\* unclosed parenthesis that keeps its comma.
C25_Witness ==
    /\ pc = "splitdone"
    /\ params_str = <<"a", " ", ",", "(", ",">>
    /\ parameters = << <<"a">>, <<"(", ",">> >>

====
